---- MODULE Spec2Model ----
(***************************************************************************)
(* tiercel: a relay between an IRC network and Telegram group chats.       *)
(* Two threads (handle_irc, handle_tg) share one Mutex<RelayState>.        *)
(* An Option<T> of the source is a set with at most one element.           *)
(***************************************************************************)
EXTENDS Integers, Sequences, FiniteSets, TLC

VARIABLES
    config,      \* Config: maps, relay_media, base_url, download_dir
    tg_group,    \* RelayState.tg_group: IRC channel -> Telegram group
    irc_channel, \* RelayState.irc_channel: Telegram group -> IRC channel
    chat_ids,    \* RelayState.chat_ids: Telegram group -> chat id
    disk,        \* content of the file CHAT_IDS_FILE
    lock,        \* holder of the Mutex<RelayState>: "none", "irc" or "tg"
    poisoned,    \* the mutex was held by a thread that panicked
    irc_pc,      \* position of the handle_irc thread
    irc_msg,     \* the message handle_irc is handling
    tg_pc,       \* position of the handle_tg thread
    tg_batch,    \* updates of the current long-poll cycle not yet handled
    tg_msg,      \* the update the listen closure is handling
    exited,      \* the process has ended (exit(1) or main's join panicked)
    nrecv,       \* number of inbound events received so far, both loops
    tgSent,      \* log of tg.send_message calls: [msg, id, text, ok]
    ircSent,     \* log of irc.send_privmsg calls: [msg, channel, text, ok]
    saves,       \* log of save_chat_ids calls: [msg, group, id, ok]
    media,       \* log of media pipeline runs: [msg, get_file, download]
    faults,      \* transport errors so far: [irc |-> read errors, poll |-> listen errors]
    asset        \* types.rs download_file: [url_name, hash, filename, result]

vars == <<config, tg_group, irc_channel, chat_ids, disk, lock, poisoned,
          irc_pc, irc_msg, tg_pc, tg_batch, tg_msg, exited, nrecv,
          tgSent, ircSent, saves, media, faults, asset>>

----------------------------------------------------------------------------
(* Bounds of the model *)

\* inbound events (both loops together) received in one run
MaxMsgs == 2
\* updates returned by one long-poll cycle
MaxBatch == 2

----------------------------------------------------------------------------
(* Input domains *)

Groups == {"FooGroup", "BarGroup"}
Channels == {"#foo", "#bar"}
IrcTargets == Channels \cup {"#baz"}

None == {}
Some(x) == {x}
Unwrap(o) == CHOOSE x \in o : TRUE

\* a partial map as a function; get returns an Option
Get(m, k) == IF k \in DOMAIN m THEN Some(m[k]) ELSE None
\* mutant: the insertion is lost
InsertLost(m, k, v) == m
Insert(m, k, v) == [x \in DOMAIN m \cup {k} |-> IF x = k THEN v ELSE m[x]]
Empty == [x \in {} |-> 0]

----------------------------------------------------------------------------
(* Values the two transports and the configuration file can supply *)

Bob == [first_name |-> "Bob", last_name |-> Some("Jones"), username |-> Some("bob")]
Ann == [first_name |-> "Ann", last_name |-> None, username |-> None]
Users == {Bob, Ann}

TextMsg == [type |-> "Text", text |-> "hi", photos |-> <<>>]
PhotoMsg == [type |-> "Photo", text |-> "", photos |-> <<"small", "large">>]
StickerMsg == [type |-> "Sticker", text |-> "", photos |-> <<>>]

\* the groups the bot is in: a title can come with either id
GroupChats == {[kind |-> "Group", id |-> 555, title |-> "FooGroup"],
               [kind |-> "Group", id |-> 777, title |-> "FooGroup"],
               [kind |-> "Group", id |-> 777, title |-> "BarGroup"]}
PrivateChat == [kind |-> "Private", id |-> 555, title |-> ""]

\* Message.reply of a reply to a line the relay's own bot sent for alice
ReplyToRelayed == [from_self |-> TRUE, text |-> "<alice> hello"]

\* telegram_bot::types::Update: message is an Option<Message>; a Message
\* has its chat, its sender, its content and the message it replies to
TgMessages ==
    [chat : GroupChats, from : Users, msg : {TextMsg}, reply : {None}]
    \cup [chat : GroupChats, from : {Bob}, msg : {PhotoMsg}, reply : {None}]
    \cup [chat : GroupChats, from : {Ann}, msg : {StickerMsg}, reply : {None}]
    \cup {[chat |-> PrivateChat, from |-> Bob, msg |-> TextMsg, reply |-> None]}
    \cup {[chat |-> [kind |-> "Group", id |-> 555, title |-> "FooGroup"],
           from |-> Bob, msg |-> TextMsg, reply |-> Some(ReplyToRelayed)]}
TgUpdates == {[message |-> None]} \cup {[message |-> Some(m)] : m \in TgMessages}

\* irc::client::data::Message: a command and an optional source nickname
IrcMessages ==
    [command : {"PRIVMSG"}, target : IrcTargets, text : {"hello"},
     nick : {Some("alice")}]
    \cup {[command |-> "PRIVMSG", target |-> "#foo", text |-> "hello", nick |-> None]}
    \cup {[command |-> "JOIN", target |-> "#foo", text |-> "", nick |-> Some("alice")]}

\* result of tg.get_file: Err, or a File whose file_path is an Option; a
\* file_path is the sequence of its path segments
FilePaths == {<<"photos", "file_1.jpg">>}
GetFileResults == {[ok |-> FALSE, file_path |-> None]}
                  \cup {[ok |-> TRUE, file_path |-> fp] : fp \in {None} \cup {Some(p) : p \in FilePaths}}
\* outcome of the HTTP request, of File::create and of io::copy in download_file
DownloadOutcomes == {"ok", "request_failed", "create_failed", "copy_failed"}

\* a Url: its origin and the segments of its path
BaseUrl == [origin |-> "http://example.org", path |-> <<"media">>]

\* [maps] of config.toml: any table from group titles to channels, two
\* groups on one channel included
ConfigMaps == {m \in UNION {[D -> Channels] : D \in {{"FooGroup"}, Groups}} :
                   m["FooGroup"] = "#foo"}
MediaConfigs ==
    {[relay_media |-> None, base_url |-> None, download_dir |-> None]}
    \cup [relay_media : {Some(TRUE)}, base_url : {None, Some(BaseUrl)},
          download_dir : {None, Some("downloads")}]
\* no download_file call of types.rs has been made
NoAsset == [url_name |-> <<>>, hash |-> <<>>, filename |-> <<>>, result |-> "none"]

\* the content of CHAT_IDS_FILE: the "title = id" lines it holds, in order,
\* and whether it ends in a piece of a line that is no "title = id" line (a
\* cut title, or a title with no digit after it). An absent or empty file
\* has no lines
EmptyFile == [lines |-> <<>>, junk |-> FALSE]
\* the titles in the order of the keys of a toml::Table (a BTreeMap)
KeyOrder == <<"BarGroup", "FooGroup">>
\* toml::encode_str of the table: one "title = id" line for each entry, in
\* the order of the keys
encode_str(ids) ==
    LET keys == SelectSeq(KeyOrder, LAMBDA g : g \in DOMAIN ids)
    IN  [lines |-> [i \in DOMAIN keys |-> <<keys[i], ids[keys[i]]>>],
         junk |-> FALSE]
\* toml::Parser::parse and toml::decode: the table of the lines read
decode(file) ==
    LET ls == {file.lines[i] : i \in DOMAIN file.lines}
    IN  [g \in {l[1] : l \in ls} |-> (CHOOSE l \in ls : l[1] = g)[2]]
\* load_toml: parser.parse() gives None for a file that ends in such a piece,
\* and toml.unwrap() then panics
CanParse(file) == ~file.junk

\* the decimal numbers that are a beginning of the digits of id
RECURSIVE ShortIds(_)
ShortIds(id) == {id} \cup (IF id >= 10 THEN ShortIds(id \div 10) ELSE {})
\* what write_all leaves in the truncated file when a write fails: the bytes
\* written before the error. That is some of the lines, and of the line
\* after them nothing, a piece that is no line, or the title with a
\* beginning of the digits of its id
PartialWrites(ids) ==
    LET ls == encode_str(ids).lines
    IN  UNION {
          {[lines |-> SubSeq(ls, 1, j), junk |-> jk] : jk \in BOOLEAN}
          \cup {[lines |-> Append(SubSeq(ls, 1, j), <<ls[j + 1][1], d>>),
                 junk |-> FALSE] : d \in ShortIds(ls[j + 1][2])}
          : j \in 0..(Len(ls) - 1)}
\* outcome of File::create and write_all in save_chat_ids; left is the
\* content a failed write_all leaves
SaveOutcomes(ids) ==
    {[kind |-> k, left |-> EmptyFile] : k \in {"ok", "create_failed"}}
    \cup {[kind |-> "write_failed", left |-> f] : f \in PartialWrites(ids)}

\* content of CHAT_IDS_FILE at startup: absent, or written by an earlier run
StoredChatIds == {EmptyFile, encode_str([g \in {"FooGroup"} |-> 555])}

----------------------------------------------------------------------------
(* Pure functions of main.rs *)

\* mutant: the last name is left out
format_tg_nick_first_only(user) == user.first_name
format_tg_nick(user) ==
    IF user.last_name = None
    THEN user.first_name
    ELSE user.first_name \o " " \o Unwrap(user.last_name)

user_path(user) ==
    IF user.username = None THEN "anonymous" ELSE Unwrap(user.username)

\* format!("<{nick}> {message}", ..)
relay_msg(nick, message) == "<" \o nick \o "> " \o message

\* Url::path_mut().push(segment)
PushUrl(url, segment) == [url EXCEPT !.path = Append(@, segment)]

RECURSIVE JoinPath(_)
JoinPath(segments) ==
    IF segments = <<>> THEN ""
    ELSE "/" \o Head(segments) \o JoinPath(Tail(segments))

\* Display of a Url, as format! prints it
UrlToString(url) == url.origin \o JoinPath(url.path)

\* download_file: the request, File::create and io::copy can each fail; the
\* request and the copy are unwrapped inside (panic), File::create is returned
\* as Err through try!
download_file(file_path, baseurl, outcome) ==
    LET filename == file_path[Len(file_path)]
    IN  CASE outcome = "request_failed" -> [panic |-> TRUE, ok |-> FALSE, url |-> baseurl]
          [] outcome = "create_failed" -> [panic |-> FALSE, ok |-> FALSE, url |-> baseurl]
          [] outcome = "copy_failed" -> [panic |-> TRUE, ok |-> FALSE, url |-> baseurl]
          [] OTHER -> [panic |-> FALSE, ok |-> TRUE, url |-> PushUrl(baseurl, filename)]

\* load_chat_ids: load_toml of the file; an absent file gives the default,
\* the empty table, as does a file without lines
load_chat_ids(file) == IF file = EmptyFile THEN Empty ELSE decode(file)

\* main: "Reverse the hashmap": collecting (channel, group) pairs into a
\* HashMap keeps, for a channel configured for several groups, the pair that
\* the iteration yields last; the iteration order of a HashMap is unspecified
ReverseMaps(maps) ==
    LET chans == {maps[g] : g \in DOMAIN maps}
    IN  {f \in [chans -> DOMAIN maps] : \A c \in chans : maps[f[c]] = c}

\* mutant: the guard is handed out although it is held
CanAcquireHeld(holder) == TRUE
\* Mutex::lock blocks while another thread holds the guard
CanAcquire(holder) == holder = "none"

\* mutant: the membership check is missing
ShouldRecordAlways(ids, title) == TRUE
\* handle_tg: "Check if channel's id should be recorded"
ShouldRecord(ids, title) == Get(ids, title) = None

----------------------------------------------------------------------------
(* State after main has built the RelayState and spawned both threads *)

Init ==
    /\ config \in {[maps |-> m, relay_media |-> mc.relay_media,
                    base_url |-> mc.base_url, download_dir |-> mc.download_dir] :
                   m \in ConfigMaps, mc \in MediaConfigs}
    /\ disk \in StoredChatIds
    /\ CanParse(disk)
    /\ chat_ids = load_chat_ids(disk)
    /\ irc_channel = config.maps
    /\ tg_group \in ReverseMaps(config.maps)
    /\ lock = "none"
    /\ poisoned = FALSE
    /\ irc_pc = "iter"
    /\ irc_msg = None
    /\ tg_pc = "listen"
    /\ tg_batch = <<>>
    /\ tg_msg = None
    /\ exited = FALSE
    /\ nrecv = 0
    /\ tgSent = <<>>
    /\ ircSent = <<>>
    /\ saves = <<>>
    /\ media = <<>>
    /\ faults = [irc |-> 0, poll |-> 0]
    /\ asset = NoAsset

----------------------------------------------------------------------------
(* handle_irc *)

Running == ~exited

\* mutant: the sender is left out of the relayed text
IrcRelayNoNick(msg, groups, ids) ==
    IF msg.command = "PRIVMSG" /\ msg.nick # None
          /\ Get(groups, msg.target) # None
          /\ Get(ids, Unwrap(Get(groups, msg.target))) # None
    THEN Some([id |-> Unwrap(Get(ids, Unwrap(Get(groups, msg.target)))),
               text |-> msg.text])
    ELSE None
\* The send handle_irc makes for one message: an Option<[id, text]>
IrcRelay(msg, groups, ids) ==
    IF msg.command = "PRIVMSG" /\ msg.nick # None
    THEN LET group == Get(groups, msg.target)
         IN  IF group # None
             THEN LET id == Get(ids, Unwrap(group))
                  IN  IF id # None
                      THEN Some([id |-> Unwrap(id),
                                 text |-> relay_msg(Unwrap(msg.nick), msg.text)])
                      ELSE None
             ELSE None
    ELSE None

\* irc.iter() yields Ok(msg)
IrcRecvOk ==
    /\ Running /\ irc_pc = "iter" /\ nrecv < MaxMsgs
    /\ \E m \in IrcMessages : irc_msg' = Some([seq |-> nrecv + 1, msg |-> m])
    /\ nrecv' = nrecv + 1
    /\ irc_pc' = "lock"
    /\ UNCHANGED <<config, tg_group, irc_channel, chat_ids, disk, lock, poisoned,
                   tg_pc, tg_batch, tg_msg, exited, tgSent, ircSent, saves, media,
                   faults, asset>>

\* mutant: a read error ends the loop
IrcRecvErrBreaks ==
    /\ Running /\ irc_pc = "iter" /\ nrecv < MaxMsgs
    /\ nrecv' = nrecv + 1
    /\ faults' = [faults EXCEPT !.irc = @ + 1]
    /\ irc_pc' = "returned"
    /\ UNCHANGED <<config, tg_group, irc_channel, chat_ids, disk, lock, poisoned,
                   irc_msg, tg_pc, tg_batch, tg_msg, exited, tgSent,
                   ircSent, saves, media, asset>>
\* irc.iter() yields Err(err): the error is printed, the loop goes on
IrcRecvErr ==
    /\ Running /\ irc_pc = "iter" /\ nrecv < MaxMsgs
    /\ nrecv' = nrecv + 1
    /\ faults' = [faults EXCEPT !.irc = @ + 1]
    /\ UNCHANGED <<config, tg_group, irc_channel, chat_ids, disk, lock, poisoned,
                   irc_pc, irc_msg, tg_pc, tg_batch, tg_msg, exited, tgSent,
                   ircSent, saves, media, asset>>

\* irc.iter() ends (the connection was closed): handle_irc returns
IrcClosed ==
    /\ Running /\ irc_pc = "iter"
    /\ irc_pc' = "returned"
    /\ UNCHANGED <<config, tg_group, irc_channel, chat_ids, disk, lock, poisoned,
                   irc_msg, tg_pc, tg_batch, tg_msg, exited, nrecv, tgSent,
                   ircSent, saves, media,
                   faults, asset>>

\* mutant: the message is handled without taking the guard
IrcLockSkipped ==
    /\ Running /\ irc_pc = "lock"
    /\ irc_pc' = "handle"
    /\ UNCHANGED <<config, tg_group, irc_channel, chat_ids, disk, lock, poisoned,
                   irc_msg, tg_pc, tg_batch, tg_msg, exited, nrecv, tgSent,
                   ircSent, saves, media, faults, asset>>
\* mutant: a poisoned mutex is taken all the same
IrcLockRecovers ==
    /\ Running /\ irc_pc = "lock"
    /\ CanAcquire(lock)
    /\ lock' = "irc"
    /\ irc_pc' = "handle"
    /\ UNCHANGED <<config, tg_group, irc_channel, chat_ids, disk, poisoned,
                   irc_msg, tg_pc, tg_batch, tg_msg, exited, nrecv, tgSent,
                   ircSent, saves, media, faults, asset>>
\* state.lock().unwrap(): blocks while the guard is held, panics if poisoned
IrcLock ==
    /\ Running /\ irc_pc = "lock"
    /\ IF poisoned
       THEN /\ lock = "none"
            /\ irc_pc' = "dead"
            /\ lock' = lock
       ELSE /\ CanAcquire(lock)
            /\ lock' = "irc"
            /\ irc_pc' = "handle"
    /\ UNCHANGED <<config, tg_group, irc_channel, chat_ids, disk, poisoned,
                   irc_msg, tg_pc, tg_batch, tg_msg, exited, nrecv, tgSent,
                   ircSent, saves, media,
                   faults, asset>>

\* mutant: the result of tg.send_message is unwrapped
IrcHandleUnwrap ==
    /\ Running /\ irc_pc = "handle"
    /\ LET cur == Unwrap(irc_msg)
           out == IrcRelay(cur.msg, tg_group, chat_ids)
       IN  IF out # None
           THEN \E ok \in BOOLEAN :
                    /\ tgSent' = Append(tgSent, [msg |-> cur.seq, id |-> Unwrap(out).id,
                                                 text |-> Unwrap(out).text, ok |-> ok])
                    /\ irc_pc' = IF ok THEN "iter" ELSE "dead"
                    /\ poisoned' = ~ok
           ELSE tgSent' = tgSent /\ irc_pc' = "iter" /\ poisoned' = poisoned
    /\ lock' = "none"
    /\ irc_msg' = None
    /\ UNCHANGED <<config, tg_group, irc_channel, chat_ids, disk,
                   tg_pc, tg_batch, tg_msg, exited, nrecv, ircSent, saves, media,
                   faults, asset>>
\* the body of the Ok arm, up to the drop of the guard; the result of
\* tg.send_message is discarded
IrcHandle ==
    /\ Running /\ irc_pc = "handle"
    /\ LET cur == Unwrap(irc_msg)
           out == IrcRelay(cur.msg, tg_group, chat_ids)
       IN  IF out # None
           THEN \E ok \in BOOLEAN :
                    tgSent' = Append(tgSent, [msg |-> cur.seq, id |-> Unwrap(out).id,
                                              text |-> Unwrap(out).text, ok |-> ok])
           ELSE tgSent' = tgSent
    /\ lock' = "none"
    /\ irc_pc' = "iter"
    /\ irc_msg' = None
    /\ UNCHANGED <<config, tg_group, irc_channel, chat_ids, disk, poisoned,
                   tg_pc, tg_batch, tg_msg, exited, nrecv, ircSent, saves, media,
                   faults, asset>>

----------------------------------------------------------------------------
(* handle_tg *)

Nothing == [sends |-> <<>>, media |-> <<>>, panic |-> FALSE]

\* the MessageType::Photo arm. gf is the result of tg.get_file, dl the outcome
\* of download_file, sendok that of irc.send_privmsg
PhotoRelay(m, channel, cfg, gf, dl, sendok) ==
    IF ~(TRUE \in cfg.relay_media) \/ m.msg.photos = <<>>
    THEN Nothing
    ELSE IF ~gf.ok
    THEN [sends |-> <<>>, media |-> <<[get_file |-> "failed", download |-> "none"]>>,
          panic |-> TRUE]
    ELSE IF gf.file_path = None
    THEN [sends |-> <<>>, media |-> <<[get_file |-> "ok", download |-> "none"]>>,
          panic |-> FALSE]
    ELSE IF cfg.download_dir = None \/ cfg.base_url = None
    THEN [sends |-> <<>>, media |-> <<[get_file |-> "ok", download |-> "none"]>>,
          panic |-> TRUE]
    ELSE LET base_url == PushUrl(Unwrap(cfg.base_url), user_path(m.from))
             res == download_file(Unwrap(gf.file_path), base_url, dl)
         IN  IF ~res.ok
             THEN [sends |-> <<>>, media |-> <<[get_file |-> "ok", download |-> dl]>>,
                   panic |-> TRUE]
             ELSE [sends |-> <<[channel |-> channel,
                                text |-> relay_msg(format_tg_nick(m.from),
                                                   UrlToString(res.url)),
                                ok |-> sendok]>>,
                   media |-> <<[get_file |-> "ok", download |-> dl]>>,
                   panic |-> ~sendok]

\* mutant: a failed send is tried again
TgRelayRetry(m, channels, cfg, gf, dl, sendok) ==
    IF Get(channels, m.chat.title) # None /\ m.msg.type = "Text"
    THEN LET line == [channel |-> Unwrap(Get(channels, m.chat.title)),
                      text |-> relay_msg(format_tg_nick(m.from), m.msg.text),
                      ok |-> sendok]
         IN  [sends |-> IF sendok THEN <<line>> ELSE <<line, line>>,
              media |-> <<>>, panic |-> ~sendok]
    ELSE Nothing
\* mutant: a title without a mapping is relayed to the channel of that name
TgRelayUnmapped(m, channels, cfg, gf, dl, sendok) ==
    IF m.msg.type = "Text"
    THEN [sends |-> <<[channel |-> IF Get(channels, m.chat.title) = None
                                   THEN m.chat.title
                                   ELSE Unwrap(Get(channels, m.chat.title)),
                       text |-> relay_msg(format_tg_nick(m.from), m.msg.text),
                       ok |-> sendok]>>,
          media |-> <<>>, panic |-> ~sendok]
    ELSE Nothing
\* `if let Entry::Occupied(e) = state.irc_channel.entry(title)` and the match
\* on m.msg: the sends made, the media pipeline calls made, and whether an
\* unwrap panicked
TgRelay(m, channels, cfg, gf, dl, sendok) ==
    LET entry == Get(channels, m.chat.title)
    IN  IF entry = None THEN Nothing
        ELSE CASE m.msg.type = "Text" ->
                    [sends |-> <<[channel |-> Unwrap(entry),
                                  text |-> relay_msg(format_tg_nick(m.from), m.msg.text),
                                  ok |-> sendok]>>,
                     media |-> <<>>,
                     panic |-> ~sendok]
               [] m.msg.type = "Photo" ->
                    PhotoRelay(m, Unwrap(entry), cfg, gf, dl, sendok)
               [] OTHER -> Nothing

\* mutant: the call returns without the table reaching the file
save_chat_ids_unwritten(file, ids, outcome) ==
    [panic |-> outcome.kind # "ok", file |-> file]
\* save_chat_ids: File::create(path).unwrap() then write_all(..).unwrap().
\* File::create truncates the file before write_all runs; a write_all that
\* fails leaves what it had written
save_chat_ids(file, ids, outcome) ==
    CASE outcome.kind = "create_failed" -> [panic |-> TRUE, file |-> file]
      [] outcome.kind = "write_failed" -> [panic |-> TRUE, file |-> outcome.left]
      [] OTHER -> [panic |-> FALSE, file |-> encode_str(ids)]

Tag(entries, seq) == [i \in DOMAIN entries |-> [msg |-> seq] @@ entries[i]]

\* listener.listen: one long-poll cycle returns a batch of updates
TgPollOk ==
    /\ Running /\ tg_pc = "listen" /\ tg_batch = <<>> /\ nrecv < MaxMsgs
    /\ \E n \in 1..MaxBatch :
         /\ nrecv + n <= MaxMsgs
         /\ \E b \in [1..n -> TgUpdates] :
              tg_batch' = [i \in 1..n |-> [seq |-> nrecv + i, update |-> b[i]]]
         /\ nrecv' = nrecv + n
    /\ UNCHANGED <<config, tg_group, irc_channel, chat_ids, disk, lock, poisoned,
                   irc_pc, irc_msg, tg_pc, tg_msg, exited, tgSent, ircSent,
                   saves, media,
                   faults, asset>>

\* listener.listen returns Err: println and std::process::exit(1)
TgPollErr ==
    /\ Running /\ tg_pc = "listen" /\ tg_batch = <<>>
    /\ faults' = [faults EXCEPT !.poll = @ + 1]
    /\ exited' = TRUE
    /\ UNCHANGED <<config, tg_group, irc_channel, chat_ids, disk, lock, poisoned,
                   irc_pc, irc_msg, tg_pc, tg_batch, tg_msg, nrecv, tgSent,
                   ircSent, saves, media, asset>>

\* mutant: the updates of a batch are taken from its end
TgUpdateLast ==
    /\ Running /\ tg_pc = "listen" /\ tg_batch # <<>>
    /\ LET u == tg_batch[Len(tg_batch)]
       IN  IF u.update.message = None
           THEN UNCHANGED <<tg_pc, tg_msg>>
           ELSE /\ tg_msg' = Some([seq |-> u.seq, msg |-> Unwrap(u.update.message)])
                /\ tg_pc' = "lock"
    /\ tg_batch' = SubSeq(tg_batch, 1, Len(tg_batch) - 1)
    /\ UNCHANGED <<config, tg_group, irc_channel, chat_ids, disk, lock, poisoned,
                   irc_pc, irc_msg, exited, nrecv, tgSent, ircSent, saves, media,
                   faults, asset>>
\* the closure is called with the next update of the batch
TgUpdate ==
    /\ Running /\ tg_pc = "listen" /\ tg_batch # <<>>
    /\ LET u == Head(tg_batch)
       IN  IF u.update.message = None
           THEN UNCHANGED <<tg_pc, tg_msg>>
           ELSE /\ tg_msg' = Some([seq |-> u.seq, msg |-> Unwrap(u.update.message)])
                /\ tg_pc' = "lock"
    /\ tg_batch' = Tail(tg_batch)
    /\ UNCHANGED <<config, tg_group, irc_channel, chat_ids, disk, lock, poisoned,
                   irc_pc, irc_msg, exited, nrecv, tgSent, ircSent, saves, media,
                   faults, asset>>

\* state.lock().unwrap()
TgLock ==
    /\ Running /\ tg_pc = "lock"
    /\ IF poisoned
       THEN /\ lock = "none"
            /\ tg_pc' = "dead"
            /\ lock' = lock
       ELSE /\ CanAcquire(lock)
            /\ lock' = "tg"
            /\ tg_pc' = "chat"
    /\ UNCHANGED <<config, tg_group, irc_channel, chat_ids, disk, poisoned,
                   irc_pc, irc_msg, tg_batch, tg_msg, exited, nrecv, tgSent,
                   ircSent, saves, media,
                   faults, asset>>

\* match m.chat: any chat that is not a Group is ignored, the guard is dropped
TgNotGroup ==
    /\ Running /\ tg_pc = "chat"
    /\ Unwrap(tg_msg).msg.chat.kind # "Group"
    /\ tg_pc' = "listen"
    /\ tg_msg' = None
    /\ lock' = "none"
    /\ UNCHANGED <<config, tg_group, irc_channel, chat_ids, disk, poisoned,
                   irc_pc, irc_msg, tg_batch, exited, nrecv, tgSent, ircSent,
                   saves, media,
                   faults, asset>>

\* Group chat whose title has a chat id already: nothing is recorded
TgKnown ==
    /\ Running /\ tg_pc = "chat"
    /\ Unwrap(tg_msg).msg.chat.kind = "Group"
    /\ ~ShouldRecord(chat_ids, Unwrap(tg_msg).msg.chat.title)
    /\ tg_pc' = "relay"
    /\ UNCHANGED <<config, tg_group, irc_channel, chat_ids, disk, lock, poisoned,
                   irc_pc, irc_msg, tg_batch, tg_msg, exited, nrecv, tgSent,
                   ircSent, saves, media,
                   faults, asset>>

\* Group chat whose title has no chat id: insert it and save the table; a
\* failed save panics, which ends the thread and poisons the mutex
TgDiscover ==
    /\ Running /\ tg_pc = "chat"
    /\ LET cur == Unwrap(tg_msg)
           chat == cur.msg.chat
       IN  /\ chat.kind = "Group"
           /\ ShouldRecord(chat_ids, chat.title)
           /\ chat_ids' = Insert(chat_ids, chat.title, chat.id)
           /\ \E outcome \in SaveOutcomes(chat_ids') :
                LET res == save_chat_ids(disk, chat_ids', outcome)
                IN  /\ disk' = res.file
                    /\ saves' = Append(saves, [msg |-> cur.seq, group |-> chat.title,
                                               id |-> chat.id, ok |-> ~res.panic])
                    /\ IF res.panic
                       THEN tg_pc' = "dead" /\ lock' = "none" /\ poisoned' = TRUE
                       ELSE tg_pc' = "relay" /\ UNCHANGED <<lock, poisoned>>
    /\ UNCHANGED <<config, tg_group, irc_channel, irc_pc, irc_msg, tg_batch,
                   tg_msg, exited, nrecv, tgSent, ircSent, media,
                   faults, asset>>

\* routing and the match on m.msg, up to the drop of the guard; a panic keeps
\* tg_msg, the message the thread died in
TgSend ==
    /\ Running /\ tg_pc = "relay"
    /\ LET cur == Unwrap(tg_msg)
       IN  \E res \in {TgRelay(cur.msg, irc_channel, config, gf, dl, sendok) :
                         gf \in GetFileResults, dl \in DownloadOutcomes,
                         sendok \in BOOLEAN} :
                 /\ ircSent' = ircSent \o Tag(res.sends, cur.seq)
                 /\ media' = media \o Tag(res.media, cur.seq)
                 /\ IF res.panic
                    THEN tg_pc' = "dead" /\ poisoned' = TRUE /\ tg_msg' = tg_msg
                    ELSE tg_pc' = "listen" /\ poisoned' = poisoned /\ tg_msg' = None
    /\ lock' = "none"
    /\ UNCHANGED <<config, tg_group, irc_channel, chat_ids, disk, irc_pc, irc_msg,
                   tg_batch, exited, nrecv, tgSent, saves,
                   faults, asset>>

----------------------------------------------------------------------------
(* main *)

\* irc_handle.join().unwrap(), then tg_handle.join().unwrap(): main panics,
\* and the process ends, once the thread it is joining has panicked
MainJoin ==
    /\ Running
    /\ \/ irc_pc = "dead"
       \/ irc_pc = "returned" /\ tg_pc = "dead"
    /\ exited' = TRUE
    /\ UNCHANGED <<config, tg_group, irc_channel, chat_ids, disk, lock, poisoned,
                   irc_pc, irc_msg, tg_pc, tg_batch, tg_msg, nrecv, tgSent,
                   ircSent, saves, media,
                   faults, asset>>

Next ==
    \/ IrcRecvOk \/ IrcRecvErr \/ IrcClosed \/ IrcLock \/ IrcHandle
    \/ TgPollOk \/ TgPollErr \/ TgUpdate \/ TgLock
    \/ TgNotGroup \/ TgKnown \/ TgDiscover \/ TgSend
    \/ MainJoin

Spec == Init /\ [][Next]_vars

\* both threads are scheduled: a step of handle_irc or of handle_tg that can
\* be taken is taken; whether a message arrives is up to the two networks
Fairness ==
    /\ WF_vars(IrcLock) /\ WF_vars(IrcHandle)
    /\ WF_vars(TgUpdate) /\ WF_vars(TgLock)
    /\ WF_vars(TgNotGroup) /\ WF_vars(TgKnown) /\ WF_vars(TgDiscover)
    /\ WF_vars(TgSend)

SpecFair == Spec /\ Fairness

TypeOK ==
    /\ lock \in {"none", "irc", "tg"}
    /\ irc_pc \in {"iter", "lock", "handle", "returned", "dead"}
    /\ tg_pc \in {"listen", "lock", "chat", "relay", "dead"}
    /\ nrecv \in 0..MaxMsgs

----------------------------------------------------------------------------
(* types.rs: the file name of a downloaded asset. A name is the sequence of
   its characters. *)

\* longest source file name drawn, besides the two of the documentation
MaxNameLen == 3

RECURSIVE SeqsUpTo(_, _)
SeqsUpTo(alphabet, n) ==
    IF n = 0 THEN {<<>>}
    ELSE LET shorter == SeqsUpTo(alphabet, n - 1)
         IN  shorter \cup {Append(w, c) : w \in shorter, c \in alphabet}

CatJpg == <<"c", "a", "t", ".", "j", "p", "g">>
CatFile == <<"c", "a", "t", "f", "i", "l", "e">>
\* the last segment of the path of the url handed to download_file: any
\* name that is not empty
SourceNames == (SeqsUpTo({"c", "j", "."}, MaxNameLen) \ {<<>>}) \cup {CatJpg, CatFile}

\* generate_name: six random ASCII alphanumerics
GeneratedNames == {<<"a", "b", "c", "1", "2", "3">>, <<"Z", "k", "9", "q", "0", "P">>}

\* str::split(sep): the pieces between the separators; never empty
RECURSIVE Split(_, _)
Split(str, sep) ==
    IF str = <<>> THEN << <<>> >>
    ELSE LET rest == Split(Tail(str), sep)
         IN  IF Head(str) = sep
             THEN << <<>> >> \o rest
             ELSE << <<Head(str)>> \o Head(rest) >> \o Tail(rest)

\* Iterator::last: an Option
IterLast(items) == IF items = <<>> THEN None ELSE Some(items[Len(items)])

replace_filename(filename, name) ==
    LET ext == IterLast(Split(filename, "."))
    IN  IF ext # None
        THEN name \o <<".">> \o Unwrap(ext)
        ELSE name

\* download_file of types.rs: a fresh name, the renamed file, the download
TypesDownloadFile ==
    /\ asset.result = "none"
    /\ \E hash \in GeneratedNames, result \in {"ok", "err"} :
         asset' = [asset EXCEPT !.hash = hash,
                                !.filename = replace_filename(asset.url_name, hash),
                                !.result = result]
    /\ UNCHANGED <<config, tg_group, irc_channel, chat_ids, disk, lock, poisoned,
                   irc_pc, irc_msg, tg_pc, tg_batch, tg_msg, exited, nrecv,
                   tgSent, ircSent, saves, media, faults>>

\* download_file is called with a url whose last path segment is any name;
\* the relay itself is idle
InitTypes ==
    /\ asset \in {[NoAsset EXCEPT !.url_name = f] : f \in SourceNames}
    /\ config = [maps |-> Empty, relay_media |-> None, base_url |-> None,
                 download_dir |-> None]
    /\ disk = EmptyFile
    /\ chat_ids = Empty
    /\ irc_channel = Empty
    /\ tg_group = Empty
    /\ lock = "none"
    /\ poisoned = FALSE
    /\ irc_pc = "iter"
    /\ irc_msg = None
    /\ tg_pc = "listen"
    /\ tg_batch = <<>>
    /\ tg_msg = None
    /\ exited = FALSE
    /\ nrecv = 0
    /\ tgSent = <<>>
    /\ ircSent = <<>>
    /\ saves = <<>>
    /\ media = <<>>
    /\ faults = [irc |-> 0, poll |-> 0]

NextTypes == TypesDownloadFile

SpecTypes == InitTypes /\ [][NextTypes]_vars

----------------------------------------------------------------------------
(* Vocabulary of the properties *)

\* the step in which handle_irc finishes the message it holds
IrcFinishes == irc_pc = "handle" /\ irc_pc' # "handle"
\* the step in which the listen closure leaves the match on m.msg
TgFinishes == tg_pc = "relay" /\ tg_pc' # "relay"
\* handle_tg is inside the handling of a message, holding the guard
TgInside == tg_pc \in {"chat", "relay"}

Last(log) == log[Len(log)]
Grew(old, new) == Len(new) = Len(old) + 1 /\ SubSeq(new, 1, Len(old)) = old

\* number of outbound sends made for the inbound event numbered n
SendCount(n) ==
    Cardinality({i \in DOMAIN tgSent : tgSent[i].msg = n})
    + Cardinality({i \in DOMAIN ircSent : ircSent[i].msg = n})

\* the inbound event numbered n is no longer held by either loop
Finished(n) ==
    /\ n \in 1..nrecv
    /\ irc_msg # None => Unwrap(irc_msg).seq # n
    /\ tg_msg # None => Unwrap(tg_msg).seq # n
    /\ \A i \in DOMAIN tg_batch : tg_batch[i].seq # n

\* the handling of the message that discovered (group, id) has finished
DiscoveryDone(group, id) ==
    \E i \in DOMAIN saves :
        /\ saves[i].group = group /\ saves[i].id = id
        /\ Finished(saves[i].msg)

----------------------------------------------------------------------------
(* Properties *)

\* C1: when handle_irc finishes a PRIVMSG with a sender n and body b on a
\* channel mapped to a group whose chat id is known, it has made exactly one
\* tg.send_message call, to that id with the text "<n> b", and no other send.
C1_IrcRelayExact ==
    [][IrcFinishes =>
        LET cur == Unwrap(irc_msg)
            m == cur.msg
        IN  (/\ m.command = "PRIVMSG" /\ m.nick # None
             /\ m.target \in DOMAIN tg_group
             /\ tg_group[m.target] \in DOMAIN chat_ids)
            => /\ Grew(tgSent, tgSent')
               /\ Last(tgSent').msg = cur.seq
               /\ Last(tgSent').id = chat_ids[tg_group[m.target]]
               /\ Last(tgSent').text = "<" \o Unwrap(m.nick) \o "> " \o m.text
               /\ ircSent' = ircSent]_vars

C1_Witness ==
    \E i \in DOMAIN tgSent :
        tgSent[i].id = 555 /\ tgSent[i].text = "<alice> hello"

\* C2: when the listen closure finishes a Text message t from a user with
\* label L (first name, or "first last") in a group whose title the
\* configuration maps to channel c, it has made exactly one send_privmsg
\* call, to c with the line "<L> t".
C2_TgRelayExact ==
    [][TgFinishes =>
        LET cur == Unwrap(tg_msg)
            m == cur.msg
            label == IF m.from.last_name = None
                     THEN m.from.first_name
                     ELSE m.from.first_name \o " " \o Unwrap(m.from.last_name)
        IN  (m.msg.type = "Text" /\ m.chat.title \in DOMAIN config.maps)
            => /\ Grew(ircSent, ircSent')
               /\ Last(ircSent').msg = cur.seq
               /\ Last(ircSent').channel = config.maps[m.chat.title]
               /\ Last(ircSent').text = "<" \o label \o "> " \o m.msg.text
               /\ tgSent' = tgSent]_vars

C2_Witness ==
    \E i \in DOMAIN ircSent :
        /\ ircSent[i].text = "<Bob Jones> hi"
        /\ ircSent[i].channel = "#bar"
        /\ \E j \in DOMAIN ircSent : ircSent[j].text = "<Ann> hi"

\* C3: the two loops are never both inside the handling of a message, and a
\* loop inside a handling holds the mutex.
C3_MutualExclusion ==
    /\ ~(irc_pc = "handle" /\ TgInside)
    /\ irc_pc = "handle" => lock = "irc"
    /\ TgInside => lock = "tg"

\* one loop is inside a handling while the other waits for the guard
C3_Witness ==
    \/ irc_pc = "lock" /\ TgInside
    \/ tg_pc = "lock" /\ irc_pc = "handle"

\* C4: for every configured pair (g, c) the group lookup of g gives c and the
\* channel lookup of c gives g; a room outside the configuration resolves to
\* none in both directions.
C4_InverseBijection ==
    /\ \A g \in DOMAIN config.maps :
         /\ Get(irc_channel, g) = Some(config.maps[g])
         /\ Get(tg_group, config.maps[g]) = Some(g)
    /\ \A g \in Groups \ DOMAIN config.maps : Get(irc_channel, g) = None
    /\ \A c \in IrcTargets \ {config.maps[g] : g \in DOMAIN config.maps} :
         Get(tg_group, c) = None

\* C5: once the handling of the message that discovered (g, id) has finished,
\* a PRIVMSG with a sender that handle_irc finishes on a channel mapped to g
\* is sent to id.
C5_DiscoveredIdUsed ==
    [][IrcFinishes =>
        LET cur == Unwrap(irc_msg)
            m == cur.msg
        IN  \A g \in Groups, i \in DOMAIN saves :
              (/\ m.command = "PRIVMSG" /\ m.nick # None
               /\ Get(tg_group, m.target) = Some(g)
               /\ saves[i].group = g
               /\ DiscoveryDone(g, saves[i].id))
              => /\ Grew(tgSent, tgSent')
                 /\ Last(tgSent').msg = cur.seq
                 /\ Last(tgSent').id = saves[i].id]_vars

\* a message relayed to an id that was discovered in this run
C5_Witness ==
    \E i \in DOMAIN saves, j \in DOMAIN tgSent :
        /\ saves[i].ok /\ saves[i].id = tgSent[j].id
        /\ saves[i].msg < tgSent[j].msg
        /\ Get(tg_group, "#foo") = Some(saves[i].group)

\* C6: recording a chat id is idempotent: however many messages of a group
\* are handled, the table is saved at most once for that group, and the table
\* holds one entry for the group, the id recorded first.
C6_RecordIdempotent ==
    \A g \in Groups :
        LET attempts == {i \in DOMAIN saves : saves[i].group = g}
        IN  /\ Cardinality(attempts) <= 1
            /\ \A i \in attempts : Get(chat_ids, g) = Some(saves[i].id)

\* a second message of a discovered group, with the same id, has passed the
\* membership check
C6_Witness ==
    /\ tg_pc = "relay"
    /\ \E i \in DOMAIN saves :
         LET cur == Unwrap(tg_msg)
         IN  /\ cur.msg.chat.title = saves[i].group
             /\ cur.msg.chat.id = saves[i].id
             /\ cur.seq # saves[i].msg

\* C7: delivery is at most once: no inbound event has two outbound sends, and
\* an event that either loop has finished with gets no further send.
C7_AtMostOnce ==
    /\ [](\A n \in 1..nrecv : SendCount(n) <= 1)
    /\ [][\A n \in 1..nrecv : Finished(n) => SendCount(n)' = SendCount(n)]_vars

\* the first event came from a group outside the mapping and was dropped, the
\* second was relayed
C7_Witness ==
    /\ nrecv = 2 /\ Finished(1) /\ Finished(2)
    /\ SendCount(1) = 0 /\ SendCount(2) = 1
    /\ \E i \in DOMAIN saves :
         saves[i].msg = 1 /\ saves[i].group \notin DOMAIN config.maps

\* C8: while handle_tg handles a message of a group whose title is not in the
\* configured mapping, nothing is sent to IRC.
C8_UnmappedGroupSilent ==
    [][(TgInside /\ Unwrap(tg_msg).msg.chat.title \notin DOMAIN config.maps)
        => ircSent' = ircSent]_vars

\* the first event, a message of a group outside the mapping, was handled to
\* the end (its chat id recorded), as was a second event; nothing went to IRC
C8_Witness ==
    /\ nrecv = 2 /\ Finished(1) /\ Finished(2)
    /\ tg_pc = "listen" /\ irc_pc = "iter" /\ ircSent = <<>>
    /\ \E i \in DOMAIN saves :
         saves[i].msg = 1 /\ saves[i].group \notin DOMAIN config.maps
    /\ Len(saves) = 1

\* C9: a failed save of the chat-id table is not fatal: handle_tg goes on
\* and the mutex stays usable by handle_irc.
C9_SaveFailureNonFatal ==
    (\E i \in DOMAIN saves : ~saves[i].ok) => (tg_pc # "dead" /\ ~poisoned)

\* C10: a failure of tg.get_file or of download_file does not end handle_tg
\* and leaves the mutex usable by handle_irc.
C10_MediaFailureNonFatal ==
    (\E i \in DOMAIN media :
        media[i].get_file = "failed" \/ media[i].download \notin {"ok", "none"})
    => (tg_pc # "dead" /\ ~poisoned)

\* C11: a failed long-poll does not end handle_tg or the process: the loop
\* polls again.
C11_PollFailureRetried ==
    faults.poll > 0 => (~exited /\ tg_pc # "dead")

\* C12: a read error of the IRC stream leaves the RelayState as it is, makes
\* no send, and leaves handle_irc consuming the stream, the process running.
C12_IrcReadErrorResumes ==
    [][faults'.irc # faults.irc =>
        /\ UNCHANGED <<tg_group, irc_channel, chat_ids>>
        /\ tgSent' = tgSent /\ ircSent' = ircSent
        /\ irc_pc' = "iter"
        /\ ~exited']_vars

\* the first event was a read error, the second a message handle_irc relayed
C12_Witness ==
    /\ faults.irc = 1 /\ nrecv = 2
    /\ \E i \in DOMAIN tgSent : tgSent[i].msg = 2

\* C13: a failed tg.send_message is dropped: the one call is all that is
\* made for the message, the RelayState is unchanged, the guard is released,
\* the mutex is not poisoned, handle_irc goes back to the stream and neither
\* thread nor the process ends.
C13_TgSendFailureDropped ==
    [][(IrcFinishes /\ Len(tgSent') > Len(tgSent) /\ ~Last(tgSent').ok) =>
        /\ Grew(tgSent, tgSent')
        /\ UNCHANGED <<tg_group, irc_channel, chat_ids>>
        /\ lock' = "none" /\ ~poisoned'
        /\ irc_pc' = "iter"
        /\ tg_pc' = tg_pc
        /\ ~exited']_vars

\* a send failed for the first event; handle_irc relayed the second
C13_Witness ==
    /\ Len(tgSent) = 2
    /\ tgSent[1].msg = 1 /\ ~tgSent[1].ok
    /\ tgSent[2].msg = 2 /\ tgSent[2].ok

\* the part of a name after its final "."
AfterLastDot(f) ==
    LET dots == {i \in DOMAIN f : f[i] = "."}
        final == CHOOSE i \in dots : \A j \in dots : j <= i
    IN  SubSeq(f, final + 1, Len(f))

\* C14: the file name made from a stem s and a source name f is s, ".", and
\* the part of f after its final "." when f contains a ".", and s alone when
\* f contains none.
C14_FileName ==
    asset.result # "none" =>
        asset.filename =
            IF \E i \in DOMAIN asset.url_name : asset.url_name[i] = "."
            THEN asset.hash \o <<".">> \o AfterLastDot(asset.url_name)
            ELSE asset.hash

\* the name inside the leading <...> of a line the relay sent
ReplyNick(text) == IF text = "<alice> hello" THEN Some("alice") ELSE None

\* C15: a Text message t from a user with label L that replies to a line
\* "<name> body" sent by the relay's own bot is relayed as "<L> name: t"; a
\* message that is no reply is relayed as "<L> t".
C15_ReplyAttribution ==
    [][TgFinishes =>
        LET cur == Unwrap(tg_msg)
            m == cur.msg
            label == IF m.from.last_name = None
                     THEN m.from.first_name
                     ELSE m.from.first_name \o " " \o Unwrap(m.from.last_name)
            prefix == IF m.reply # None /\ Unwrap(m.reply).from_self
                         /\ ReplyNick(Unwrap(m.reply).text) # None
                      THEN Unwrap(ReplyNick(Unwrap(m.reply).text)) \o ": "
                      ELSE ""
        IN  (m.msg.type = "Text" /\ m.chat.title \in DOMAIN config.maps)
            => /\ Grew(ircSent, ircSent')
               /\ Last(ircSent').text = "<" \o label \o "> " \o prefix \o m.msg.text]_vars

\* C16: every outbound send is made by the loop that holds the guard, so
\* no step has sends of both loops.
C16_SendsUnderLock ==
    [][/\ tgSent' # tgSent => (lock = "irc" /\ irc_pc = "handle")
       /\ ircSent' # ircSent => (lock = "tg" /\ tg_pc = "relay")
       /\ ~(tgSent' # tgSent /\ ircSent' # ircSent)]_vars

\* handle_irc holds a message and waits for the guard while handle_tg, which
\* holds it, is about to send a line
C16_Witness ==
    /\ irc_pc = "lock" /\ tg_pc = "relay" /\ lock = "tg"
    /\ Unwrap(tg_msg).msg.msg.type = "Text"
    /\ Unwrap(tg_msg).msg.chat.title \in DOMAIN irc_channel

\* C17: the chat-id table is append-only: no step removes an entry or changes
\* its id.
C17_ChatIdsAppendOnly ==
    [][\A g \in DOMAIN chat_ids :
         g \in DOMAIN chat_ids' /\ chat_ids'[g] = chat_ids[g]]_vars

\* a message of FooGroup with id 777 has passed the discovery step while the
\* table holds FooGroup with id 555
C17_Witness ==
    /\ tg_pc = "relay"
    /\ Unwrap(tg_msg).msg.chat.title = "FooGroup"
    /\ Unwrap(tg_msg).msg.chat.id = 777
    /\ Get(chat_ids, "FooGroup") = Some(555)

\* an irc.send_privmsg call has failed
IrcSendFailed == \E i \in DOMAIN ircSent : ~ircSent[i].ok

\* C18: a failed send to IRC is fatal for relaying: handle_tg has ended, and
\* from then on no send is made in either direction.
C18_IrcSendFailureFatal ==
    /\ [](IrcSendFailed => tg_pc = "dead")
    /\ [][IrcSendFailed => (tgSent' = tgSent /\ ircSent' = ircSent)]_vars

\* after the failed send handle_irc received a message and, instead of
\* relaying it, ended at the poisoned mutex
C18_Witness ==
    /\ irc_pc = "dead"
    /\ \E i \in DOMAIN ircSent :
         ~ircSent[i].ok /\ Unwrap(irc_msg).seq > ircSent[i].msg

\* C19: the updates of a batch are handled one at a time in the order
\* received: the update in hand precedes those still waiting, every line
\* sent precedes them too, and the lines sent to IRC are in the order of the
\* messages they relay.
C19_BatchInOrder ==
    /\ \A k, l \in DOMAIN tg_batch : k < l => tg_batch[k].seq < tg_batch[l].seq
    /\ \A k \in DOMAIN tg_batch :
         /\ tg_msg # None => Unwrap(tg_msg).seq < tg_batch[k].seq
         /\ \A i \in DOMAIN ircSent : ircSent[i].msg < tg_batch[k].seq
    /\ \A i, j \in DOMAIN ircSent : i < j => ircSent[i].msg < ircSent[j].msg

\* the first update of a batch was handled to the end and its line sent while
\* the second still waits
C19_Witness ==
    /\ tg_pc = "listen" /\ tg_msg = None
    /\ Len(ircSent) = 1 /\ ircSent[1].msg = 1
    /\ Len(tg_batch) = 1 /\ tg_batch[1].seq = 2
    /\ tg_batch[1].update.message # None

\* media relay is switched on and has both its base URL and download directory
MediaConfigured ==
    TRUE \in config.relay_media /\ config.base_url # None /\ config.download_dir # None

\* C20: download_file is called only when media relay is switched on and
\* both the base URL and the download directory are configured; with media
\* relay on and one of the two missing, a message with a photo is handled to
\* the end without the download and handle_tg goes on.
C20_MediaOnlyWhenConfigured ==
    [][TgFinishes =>
        LET m == Unwrap(tg_msg).msg
            downloads == {i \in DOMAIN media' : i > Len(media) /\ media'[i].download # "none"}
        IN  /\ downloads # {} => MediaConfigured
            /\ (m.msg.type = "Photo" /\ TRUE \in config.relay_media /\ ~MediaConfigured)
               => (downloads = {} /\ tg_pc' = "listen")]_vars

\* every call of save_chat_ids so far has returned
AllSavesOk == \A i \in DOMAIN saves : saves[i].ok

\* C21: whenever handle_tg is not inside the handling of a message and every
\* save so far has succeeded, the table loaded from CHAT_IDS_FILE is the
\* chat_ids table in memory and holds every id discovered at runtime; each
\* successful save leaves in the file the entries it held before plus the
\* new one.
C21_DurableEqualsMemory ==
    /\ []((~TgInside /\ AllSavesOk) =>
            /\ load_chat_ids(disk) = chat_ids
            /\ \A i \in DOMAIN saves :
                 Get(load_chat_ids(disk), saves[i].group) = Some(saves[i].id))
    /\ [][(Len(saves') > Len(saves) /\ Last(saves').ok) =>
            load_chat_ids(disk') =
              Insert(load_chat_ids(disk), Last(saves').group, Last(saves').id)]_vars

\* the file held FooGroup at startup; BarGroup was discovered at runtime, the
\* handling of its message has ended, and the file now holds both
C21_Witness ==
    /\ tg_pc = "listen" /\ tg_msg = None /\ AllSavesOk
    /\ Len(saves) = 1 /\ saves[1].group = "BarGroup" /\ Finished(saves[1].msg)
    /\ disk = [lines |-> <<<<"BarGroup", saves[1].id>>, <<"FooGroup", 555>>>>,
               junk |-> FALSE]

\* a send, a get_file, a download or a save has failed
OperationFailed ==
    \/ \E i \in DOMAIN tgSent : ~tgSent[i].ok
    \/ \E i \in DOMAIN ircSent : ~ircSent[i].ok
    \/ \E i \in DOMAIN saves : ~saves[i].ok
    \/ \E i \in DOMAIN media :
         media[i].get_file = "failed" \/ media[i].download \notin {"ok", "none"}

\* C22: with both threads scheduled fairly, and as long as no send, file
\* fetch, download or save fails (and no long-poll, which would end the
\* process), the guard once taken is released again and every message
\* received by either loop is handled to the end: neither loop waits for the
\* guard forever.
C22_NoDeadlock ==
    /\ (lock # "none") ~> (lock = "none" \/ OperationFailed \/ faults.poll > 0)
    /\ \A n \in 1..MaxMsgs :
         (n <= nrecv) ~> (Finished(n) \/ OperationFailed \/ faults.poll > 0)

====
